---------------------------- MODULE Spec2Model ----------------------------
(***************************************************************************)
(* iv2glb (src/native/iv2glb.cpp): an Open Inventor scene is read, its     *)
(* triangles are accumulated into a MeshOut by triangleCB, and writeGLB    *)
(* packs the mesh into a glTF container document and writes it.            *)
(*                                                                         *)
(* Numbers.  A float is a record [cls, val]: cls is "fin", "inf" or "nan"; *)
(* a finite value is held in fixed point, val = value * One.  A double     *)
(* unit scale is held the same way (0.001 is 10, 1609.344 is 16093440).    *)
(***************************************************************************)
EXTENDS Integers, Sequences, FiniteSets, TLC

\* ------------------------------------------------------------------ bounds
\* Most triangles one traversal emits.
MaxTriangles == 2
\* Largest argc the program is started with.
MaxArgc == 4

\* ------------------------------------------------------------------ floats
One == 10 ^ 4

Fin(n) == [cls |-> "fin", val |-> n]
PosInf == [cls |-> "inf", val |-> 1]
NegInf == [cls |-> "inf", val |-> -1]
NaN    == [cls |-> "nan", val |-> 0]

\* The float comparison a < b: false as soon as one side is a NaN.
FLt(a, b) ==
  /\ a.cls # "nan"
  /\ b.cls # "nan"
  /\ CASE a.cls = "inf" /\ b.cls = "inf" -> a.val < b.val
       [] a.cls = "inf" /\ b.cls = "fin" -> a.val < 0
       [] a.cls = "fin" /\ b.cls = "inf" -> b.val > 0
       [] OTHER -> a.val < b.val

\* The float comparison a > b.
FGt(a, b) == FLt(b, a)

\* The product w * s of a coordinate and a positive scale, rounded to the
\* resolution of the representation; infinities and NaN propagate.  The
\* quotient (w.val * s) \div One is computed from the whole and the
\* fractional part of s, which keeps every intermediate value small.
FMul(w, s) ==
  IF w.cls = "fin"
  THEN Fin(w.val * (s \div One) + (w.val * (s % One)) \div One)
  ELSE w

\* static_cast<uint32_t>(n) of a size n: n modulo 2^32, taken on the two
\* 16-bit halves of n.
U32(n) == (n % 65536) + 65536 * ((n \div 65536) % 65536)

\* ------------------------------------------------------------------ units
\* The SoUnits values the scenes of this model make current: four of the
\* eight the table names, and one the table does not name.
Units == {"MILLIMETERS", "METERS", "INCHES", "MILES", "ANGSTROMS"}

unitsScaleToMeters(u) ==
  CASE u = "MILLIMETERS" -> 10
    [] u = "CENTIMETERS" -> 100
    [] u = "METERS"      -> One
    [] u = "KILOMETERS"  -> 1000 * One
    [] u = "INCHES"      -> 254
    [] u = "FEET"        -> 3048
    [] u = "YARDS"       -> 9144
    [] u = "MILES"       -> 16093440
    [] OTHER             -> One

\* ------------------------------------------------------------------ MeshOut
\* A freshly constructed MeshOut.
MeshOut ==
  [positions |-> << >>,
   indices   |-> << >>,
   posMin    |-> <<PosInf, PosInf, PosInf>>,
   posMax    |-> <<NegInf, NegInf, NegInf>>]

updateMinMax(m, x, y, z) ==
  [m EXCEPT
     !.posMin = <<IF FLt(x, m.posMin[1]) THEN x ELSE m.posMin[1],
                  IF FLt(y, m.posMin[2]) THEN y ELSE m.posMin[2],
                  IF FLt(z, m.posMin[3]) THEN z ELSE m.posMin[3]>>,
     !.posMax = <<IF FGt(x, m.posMax[1]) THEN x ELSE m.posMax[1],
                  IF FGt(y, m.posMax[2]) THEN y ELSE m.posMax[2],
                  IF FGt(z, m.posMax[3]) THEN z ELSE m.posMax[3]>>]

\* The coordinate stored without the unit scale (a faulty variant).
scaleCoordUnscaled(w, scale) == w

\* static_cast<float>(wp[i] * scale)
scaleCoord(w, scale) == FMul(w, scale)

\* The index of the next vertex, without the division by 3 (a faulty variant).
nextIndexNoDiv(m) == U32(Len(m.positions))

\* static_cast<uint32_t>(out->positions.size() / 3)
nextIndex(m) == U32(Len(m.positions) \div 3)

\* The lambda pushVertex: wp is the transformed point; the result is the
\* mesh after the three push_backs and updateMinMax, and the index returned.
pushVertex(m, wp, scale) ==
  LET x == scaleCoord(wp[1], scale)
      y == scaleCoord(wp[2], scale)
      z == scaleCoord(wp[3], scale)
      idx == nextIndex(m)
      pushed == [m EXCEPT !.positions = m.positions \o <<x, y, z>>]
  IN  [mesh |-> updateMinMax(pushed, x, y, z), idx |-> idx]

\* triangleCB that drops a triangle whose first two corners coincide
\* (a faulty variant).
triangleCBRejectDegenerate(m, tri, u) ==
  IF tri[1] = tri[2] THEN m
  ELSE LET scale == unitsScaleToMeters(u)
           r1 == pushVertex(m, tri[1], scale)
           r2 == pushVertex(r1.mesh, tri[2], scale)
           r3 == pushVertex(r2.mesh, tri[3], scale)
       IN  [r3.mesh EXCEPT !.indices = r3.mesh.indices \o <<r1.idx, r2.idx, r3.idx>>]

\* triangleCB on the mesh m, for the transformed corners tri under units u.
triangleCB(m, tri, u) ==
  LET scale == unitsScaleToMeters(u)
      r1 == pushVertex(m, tri[1], scale)
      r2 == pushVertex(r1.mesh, tri[2], scale)
      r3 == pushVertex(r2.mesh, tri[3], scale)
  IN  [r3.mesh EXCEPT !.indices = r3.mesh.indices \o <<r1.idx, r2.idx, r3.idx>>]

\* ------------------------------------------------------------------ writeGLB
\* sizeof(float) and sizeof(uint32_t)
SizeofFloat == 4
SizeofU32 == 4

\* posBytes counted in floats instead of bytes (a faulty variant).
posBytesNoSizeof(m) == Len(m.positions)

posBytes(m) == Len(m.positions) * SizeofFloat
idxBytes(m) == Len(m.indices) * SizeofU32

\* The buffer after the two memcpy calls, as 4-byte words: the positions,
\* then the indices.
bufferData(m) ==
  m.positions \o [k \in 1..Len(m.indices) |-> [cls |-> "u32", val |-> m.indices[k]]]

\* The two buffer views, positions then indices.
bufferViews(m) ==
  << [buffer |-> 0, byteOffset |-> 0, byteLength |-> posBytes(m),
      target |-> "ARRAY_BUFFER"],
     [buffer |-> 0, byteOffset |-> posBytes(m), byteLength |-> idxBytes(m),
      target |-> "ELEMENT_ARRAY_BUFFER"] >>

\* The two accessors with the position count not divided by 3 and the
\* bounds swapped (a faulty variant).
accessorsWrong(m) ==
  << [bufferView |-> 0, byteOffset |-> 0, componentType |-> "FLOAT",
      count |-> Len(m.positions), type |-> "VEC3",
      minValues |-> m.posMax, maxValues |-> m.posMin],
     [bufferView |-> 1, byteOffset |-> 0, componentType |-> "UNSIGNED_INT",
      count |-> Len(m.indices), type |-> "SCALAR",
      minValues |-> << >>, maxValues |-> << >>] >>

\* The two accessors, positions then indices.
accessors(m) ==
  << [bufferView |-> 0, byteOffset |-> 0, componentType |-> "FLOAT",
      count |-> Len(m.positions) \div 3, type |-> "VEC3",
      minValues |-> m.posMin, maxValues |-> m.posMax],
     [bufferView |-> 1, byteOffset |-> 0, componentType |-> "UNSIGNED_INT",
      count |-> Len(m.indices), type |-> "SCALAR",
      minValues |-> << >>, maxValues |-> << >>] >>

\* The tinygltf::Model writeGLB builds from a mesh.
buildModel(m) ==
  [bufferByteLength |-> posBytes(m) + idxBytes(m),
   bufferData  |-> bufferData(m),
   bufferViews |-> bufferViews(m),
   accessors   |-> accessors(m),
   materials   |-> << [baseColorFactor |-> <<8, 8, 8, 10>>,
                       metallicFactor |-> 0, roughnessFactor |-> 10] >>,
   meshes      |-> << [position |-> 0, indices |-> 1, material |-> 0,
                       mode |-> "TRIANGLES"] >>,
   nodes       |-> << [mesh |-> 0] >>,
   scenes      |-> << <<0>> >>,
   defaultScene |-> 0]

ErrNoTriangles == "No triangles extracted from scene graph."
ErrWrite == "tinygltf failed to write GLB."

\* The emptiness test of writeGLB, left out (a faulty variant).
meshIsEmptyNever(m) == FALSE

\* mesh.positions.empty() || mesh.indices.empty()
meshIsEmpty(m) == m.positions = << >> \/ m.indices = << >>

\* writeGLB(mesh, outPath, err): wok is whether WriteGltfSceneToFile
\* succeeds, partial whether a failed write leaves a file behind.
writeGLB(m, wok, partial) ==
  IF meshIsEmpty(m)
  THEN [ok |-> FALSE, err |-> ErrNoTriangles, doc |-> << >>, attempts |-> 0,
        out |-> "absent"]
  ELSE [ok |-> wok, err |-> IF wok THEN "" ELSE ErrWrite,
        doc |-> <<buildModel(m)>>, attempts |-> 1,
        out |-> IF wok THEN "complete" ELSE IF partial THEN "partial" ELSE "absent"]

\* ------------------------------------------------------------------ scene
\* The transformed triangles a scene can emit: the triangle of the
\* scenario, one sharing two of its corners, a degenerate one at a corner
\* of the second, and one whose points are not all finite.
SceneTriangles ==
  { << <<Fin(0), Fin(0), Fin(0)>>, <<Fin(One), Fin(0), Fin(0)>>, <<Fin(0), Fin(One), Fin(0)>> >>,
    << <<Fin(One), Fin(0), Fin(0)>>, <<Fin(0), Fin(One), Fin(0)>>, <<Fin(One), Fin(One), Fin(-2 * One)>> >>,
    << <<Fin(One), Fin(One), Fin(-2 * One)>>, <<Fin(One), Fin(One), Fin(-2 * One)>>,
       <<Fin(One), Fin(One), Fin(-2 * One)>> >>,
    << <<NaN, Fin(One), PosInf>>, <<Fin(-One), NaN, NegInf>>, <<Fin(One), Fin(0), NaN>> >> }

\* ------------------------------------------------------------------ state
VARIABLES
  pc,         \* where main is: "args", "open", "read", "traverse", "pack", "exit"
  argc,       \* main's argc
  exitCode,   \* main's return value, NoExit while it runs
  inOpen,     \* the SoInput holds an open file
  rootRefs,   \* references main holds on the scene root
  mesh,       \* the MeshOut of main
  fed,        \* the triangles the traversal has passed to triangleCB
  twin,       \* a MeshOut fed the same triangles already scaled, in METERS
  doc,        \* << >>, or the one tinygltf::Model writeGLB has built
  err,        \* the err string of main
  writes,     \* calls of WriteGltfSceneToFile
  outFile,    \* the output path: "absent", "partial" or "complete"
  stages      \* the stages main has run, each with whether it succeeded

vars == <<pc, argc, exitCode, inOpen, rootRefs, mesh, fed, twin, doc, err,
          writes, outFile, stages>>

NoExit == -1

Init ==
  /\ pc = "args"
  /\ argc \in 1..MaxArgc
  /\ exitCode = NoExit
  /\ inOpen = FALSE
  /\ rootRefs = 0
  /\ mesh = MeshOut
  /\ fed = << >>
  /\ twin = MeshOut
  /\ doc = << >>
  /\ err = ""
  /\ writes = 0
  /\ outFile = "absent"
  /\ stages = << >>

\* return code; the SoInput (when constructed) is destroyed and closes
\* its file.
Return(code) ==
  /\ pc' = "exit"
  /\ exitCode' = code
  /\ inOpen' = FALSE

Ran(stage, ok) == stages' = Append(stages, [stage |-> stage, ok |-> ok])

\* main, lines 220-229: the argument count test, then SoDB::init().
MainArgs ==
  /\ pc = "args"
  /\ IF argc < 3
     THEN Return(2) /\ Ran("args", FALSE)
     ELSE pc' = "open" /\ Ran("args", TRUE) /\ UNCHANGED <<exitCode, inOpen>>
  /\ UNCHANGED <<argc, rootRefs, mesh, fed, twin, doc, err, writes, outFile>>

\* Opening the input and carrying on although it failed (a faulty variant).
MainOpenIgnoreFailure ==
  /\ pc = "open"
  /\ \E ok \in BOOLEAN :
       /\ pc' = "read"
       /\ inOpen' = ok
       /\ Ran("open", ok)
       /\ UNCHANGED exitCode
  /\ UNCHANGED <<argc, rootRefs, mesh, fed, twin, doc, err, writes, outFile>>

\* main, lines 231-235: in.openFile(inPath).
MainOpen ==
  /\ pc = "open"
  /\ \E ok \in BOOLEAN :
       IF ok
       THEN pc' = "read" /\ inOpen' = TRUE /\ Ran("open", TRUE) /\ UNCHANGED exitCode
       ELSE Return(3) /\ Ran("open", FALSE)
  /\ UNCHANGED <<argc, rootRefs, mesh, fed, twin, doc, err, writes, outFile>>

\* main, lines 237-244: SoDB::readAll(&in), then root->ref().
MainRead ==
  /\ pc = "read"
  /\ \E ok \in BOOLEAN :
       IF ok
       THEN /\ pc' = "traverse"
            /\ rootRefs' = rootRefs + 1
            /\ Ran("read", TRUE)
            /\ UNCHANGED <<exitCode, inOpen>>
       ELSE Return(4) /\ Ran("read", FALSE) /\ UNCHANGED rootRefs
  /\ UNCHANGED <<argc, mesh, fed, twin, doc, err, writes, outFile>>

\* One triangle of action.apply(root): the traversal calls triangleCB with
\* the transformed corners tri while the units u are current.
Triangle ==
  /\ pc = "traverse"
  /\ Len(fed) < MaxTriangles
  /\ \E tri \in SceneTriangles, u \in Units :
       /\ mesh' = triangleCB(mesh, tri, u)
       /\ fed' = Append(fed, [tri |-> tri, units |-> u])
       /\ twin' = triangleCB(twin,
                             [k \in 1..3 |->
                                [i \in 1..3 |-> FMul(tri[k][i], unitsScaleToMeters(u))]],
                             "METERS")
  /\ UNCHANGED <<pc, argc, exitCode, inOpen, rootRefs, doc, err, writes,
                 outFile, stages>>

\* The end of the traversal without the unref (a faulty variant).
TraverseDoneNoUnref ==
  /\ pc = "traverse"
  /\ pc' = "pack"
  /\ Ran("traverse", TRUE)
  /\ UNCHANGED <<argc, exitCode, inOpen, rootRefs, mesh, fed, twin, doc, err,
                 writes, outFile>>

\* main, lines 248-250: action.apply(root) returns, then root->unref().
TraverseDone ==
  /\ pc = "traverse"
  /\ pc' = "pack"
  /\ rootRefs' = rootRefs - 1
  /\ Ran("traverse", TRUE)
  /\ UNCHANGED <<argc, exitCode, inOpen, mesh, fed, twin, doc, err, writes,
                 outFile>>

\* main, lines 252-260: writeGLB(mesh, outPath, err), then return 5 or 0.
MainPack ==
  /\ pc = "pack"
  /\ \E wok \in BOOLEAN, partial \in BOOLEAN :
       LET r == writeGLB(mesh, wok, partial) IN
         /\ doc' = r.doc
         /\ err' = r.err
         /\ writes' = writes + r.attempts
         /\ outFile' = r.out
         /\ Ran("pack", r.ok)
         /\ Return(IF r.ok THEN 0 ELSE 5)
  /\ UNCHANGED <<argc, rootRefs, mesh, fed, twin>>

Next ==
  \/ MainArgs
  \/ MainOpen
  \/ MainRead
  \/ Triangle
  \/ TraverseDone
  \/ MainPack

Spec == Init /\ [][Next]_vars

\* ------------------------------------------------------------------ claims
\* Number of vertices a mesh holds, and component i of its vertex number k
\* (vertices are numbered from 0).
VertexCount(m) == Len(m.positions) \div 3
Component(m, k, i) == m.positions[3 * k + i]
Vertex(m, k) == <<Component(m, k, 1), Component(m, k, 2), Component(m, k, 3)>>

\* The corners the traversal has fed, numbered from 0 in arrival order.
FedCount == 3 * Len(fed)
FedCorner(n) == fed[(n \div 3) + 1].tri[(n % 3) + 1]
FedUnits(n) == fed[(n \div 3) + 1].units

\* The float comparison a <= b.
FLe(a, b) == a.cls # "nan" /\ b.cls # "nan" /\ ~FLt(b, a)

\* C1: after at least one triangle, on every axis every stored vertex
\* component lies between posMin and posMax, and posMin and posMax are each
\* the component of some stored vertex.
C1_BoundsInvariant ==
  Len(fed) >= 1 =>
    \A i \in 1..3 :
      /\ \A k \in 0..(VertexCount(mesh) - 1) :
           /\ FLe(mesh.posMin[i], Component(mesh, k, i))
           /\ FLe(Component(mesh, k, i), mesh.posMax[i])
      /\ \E k \in 0..(VertexCount(mesh) - 1) : Component(mesh, k, i) = mesh.posMin[i]
      /\ \E k \in 0..(VertexCount(mesh) - 1) : Component(mesh, k, i) = mesh.posMax[i]

\* C2: the index buffer's length is a multiple of 3 and every index is
\* below the vertex count; a triangleCB call appends, for each of its three
\* vertices, the vertex count immediately before that vertex was appended.
C2_IndexState ==
  /\ Len(mesh.indices) % 3 = 0
  /\ \A k \in DOMAIN mesh.indices :
       0 <= mesh.indices[k] /\ mesh.indices[k] < VertexCount(mesh)

C2_IndexStep ==
  mesh' # mesh =>
    LET n == VertexCount(mesh) IN
      /\ VertexCount(mesh') = n + 3
      /\ mesh'.indices = mesh.indices \o <<n, n + 1, n + 2>>

C2_IndexValidity == [](C2_IndexState) /\ [][C2_IndexStep]_vars

C2_Witness == pc = "pack" /\ Len(mesh.indices) = 6

\* C3: after n triangles the vertex buffer holds 3n entries and the index
\* buffer is 0, 1, ..., 3n-1; two fed corners with the same point and units
\* are two vertex entries, under two different indices, with the same
\* coordinates; no triangle is dropped, a degenerate one included.
C3_NoWelding ==
  /\ VertexCount(mesh) = FedCount
  /\ mesh.indices = [k \in 1..FedCount |-> k - 1]
  /\ \A a, b \in 0..(FedCount - 1) :
       (a # b /\ FedCorner(a) = FedCorner(b) /\ FedUnits(a) = FedUnits(b)) =>
         /\ mesh.indices[a + 1] # mesh.indices[b + 1]
         /\ Vertex(mesh, mesh.indices[a + 1]) = Vertex(mesh, mesh.indices[b + 1])

\* A degenerate triangle, then a proper one that shares a corner with it.
C3_Witness ==
  /\ Len(fed) = 2
  /\ fed[1].tri[1] = fed[1].tri[2]
  /\ fed[2].tri[1] # fed[2].tri[2]
  /\ fed[2].tri[3] = fed[1].tri[1]
  /\ fed[1].units = fed[2].units

\* C4: when packing ends on a mesh without triangles, it has failed with
\* the no-triangles error, no write was attempted, no output file exists and
\* no document was built, and the exit code is 5.
C4_EmptyRejected ==
  (pc = "exit" /\ Len(stages) = 5 /\ (mesh.positions = << >> \/ mesh.indices = << >>)) =>
    /\ exitCode = 5
    /\ err = ErrNoTriangles
    /\ writes = 0
    /\ outFile = "absent"
    /\ doc = << >>
    /\ ~stages[5].ok

C4_Witness == pc = "exit" /\ Len(stages) = 5 /\ fed = << >> /\ exitCode = 5

\* C5: for a mesh with triangles the document is built, its position
\* accessor declares the vertex count and exactly posMin and posMax, and
\* its index accessor declares the index count.
C5_DeclaredMetadata ==
  /\ (pc = "exit" /\ Len(stages) = 5 /\ fed # << >>) => doc # << >>
  /\ doc # << >> =>
       /\ doc[1].accessors[1].count = VertexCount(mesh)
       /\ doc[1].accessors[1].count = FedCount
       /\ doc[1].accessors[1].minValues = mesh.posMin
       /\ doc[1].accessors[1].maxValues = mesh.posMax
       /\ doc[1].accessors[2].count = Len(mesh.indices)
       /\ doc[1].accessors[2].count = FedCount

C5_Witness == doc # << >> /\ Len(fed) = 2 /\ mesh.posMin # mesh.posMax

\* C6: with an argument count other than two paths (argc other than 3) the
\* program exits with code 2 and neither opens, traverses nor writes.
C6_WrongArgCount ==
  (argc # 3 /\ pc # "args") =>
    /\ pc = "exit"
    /\ exitCode = 2
    /\ Len(stages) = 1
    /\ ~inOpen
    /\ fed = << >>
    /\ writes = 0

\* C7: the mesh equals the one obtained from the already scaled points
\* under scale 1.0; under MILLIMETERS a stored finite coordinate is the
\* input divided by 1000; under units the table does not name the stored
\* coordinate is the input.
TableUnits == {"MILLIMETERS", "CENTIMETERS", "METERS", "KILOMETERS",
               "INCHES", "FEET", "YARDS", "MILES"}

C7_ScaleOnce ==
  /\ mesh = twin
  /\ \A n \in 0..(FedCount - 1), i \in 1..3 :
       LET w == FedCorner(n)[i]
           x == Component(mesh, n, i)
       IN  /\ x.cls = w.cls
           /\ (FedUnits(n) = "MILLIMETERS" /\ w.cls = "fin") => x.val * 1000 = w.val
           /\ FedUnits(n) \notin TableUnits => x = w
           /\ w.cls # "fin" => x = w

C7_Witness ==
  /\ Len(fed) = 2
  /\ fed[1].units = "MILLIMETERS"
  /\ fed[2].units = "ANGSTROMS"
  /\ \E i \in 1..3 : mesh.posMax[i].cls = "fin" /\ mesh.posMax[i].val > 0

\* C8: the stages run in the order args, open, read, traverse, pack, each
\* at most once; a failed stage is the last one run and gives the exit
\* code; the traversal never fails; packing starts after the traversal and
\* writes at most once; exit code 0 comes only after a successful write.
StageOrder == <<"args", "open", "read", "traverse", "pack">>
StageFailCode == <<2, 3, 4, 4, 5>>

C8_StageOrder ==
  /\ Len(stages) <= 5
  /\ \A k \in DOMAIN stages :
       /\ stages[k].stage = StageOrder[k]
       /\ stages[k].stage = "traverse" => stages[k].ok
       /\ ~stages[k].ok =>
            /\ k = Len(stages)
            /\ pc = "exit"
            /\ exitCode = StageFailCode[k]
  /\ (pc = "exit") <=> (exitCode # NoExit)
  /\ pc # "exit" => pc = StageOrder[Len(stages) + 1]
  /\ exitCode \in {NoExit, 0, 2, 3, 4, 5}
  /\ exitCode \in {2, 3, 4, 5} => ~stages[Len(stages)].ok
  /\ exitCode = 0 =>
       /\ Len(stages) = 5
       /\ \A k \in DOMAIN stages : stages[k].ok
       /\ writes = 1
       /\ outFile = "complete"
  /\ writes <= 1
  /\ (writes = 1 \/ doc # << >>) => Len(stages) = 5
  /\ fed # << >> => Len(stages) >= 3

C8_Witness == exitCode = 5 /\ writes = 1 /\ Len(fed) = 1

\* C9: the data region is 12*V + 4*I bytes long; the position range is
\* offset 0, length 12*V, for vertex attributes; the index range is offset
\* 12*V, length 4*I, for element indices; the ranges are adjacent and
\* cover the region.
C9_Layout ==
  doc # << >> =>
    LET d == doc[1]
        V == VertexCount(mesh)
        I == Len(mesh.indices)
    IN  /\ d.bufferByteLength = 12 * V + 4 * I
        /\ 4 * Len(d.bufferData) = d.bufferByteLength
        /\ d.bufferViews[1] = [buffer |-> 0, byteOffset |-> 0, byteLength |-> 12 * V,
                               target |-> "ARRAY_BUFFER"]
        /\ d.bufferViews[2] = [buffer |-> 0, byteOffset |-> 12 * V, byteLength |-> 4 * I,
                               target |-> "ELEMENT_ARRAY_BUFFER"]
        /\ d.bufferViews[1].byteOffset + d.bufferViews[1].byteLength
             = d.bufferViews[2].byteOffset
        /\ d.bufferViews[2].byteOffset + d.bufferViews[2].byteLength
             = d.bufferByteLength
        /\ SubSeq(d.bufferData, 1, 3 * V) = mesh.positions
        /\ \A k \in 1..I : d.bufferData[3 * V + k] = [cls |-> "u32", val |-> mesh.indices[k]]

C9_Witness == doc # << >> /\ VertexCount(mesh) = 6 /\ Len(mesh.indices) = 6

\* C10: when the process has ended the input file is closed and no
\* reference on the scene root is held; none is held when packing starts
\* or while the packer writes.
C10_Released ==
  /\ pc = "exit" => (~inOpen /\ rootRefs = 0)
  /\ pc = "pack" => rootRefs = 0
  /\ (writes > 0 \/ doc # << >>) => rootRefs = 0
  /\ rootRefs \in {0, 1}

C10_Witness == pc = "exit" /\ exitCode = 5 /\ Len(stages) = 5 /\ fed # << >>

=============================================================================
